---- MODULE Spec2Model ----
(***************************************************************************)
(* DigitalTouch: capacitive touch sensing by timing the charge of an RC    *)
(* network on one pin (DigitalTouch.h), the two sample filters, and the    *)
(* self-calibrating touch decision of the example sketch                   *)
(* (examples/DigitalTouch/DigitalTouch.ino).                               *)
(*                                                                         *)
(* The module holds several specifications over one set of variables:      *)
(*   SpecRead      digitalTouchRead, statement by statement                *)
(*   FairSpecRead  SpecRead, with a call that was entered running on       *)
(*   SpecFilter    digitalTouchAverage and digitalTouchMedian              *)
(*   SpecLoop      loop() of the example sketch                            *)
(*   SpecBackends  digitalTouchRead, generic and hard-coded version        *)
(*   SpecAvgWide   digitalTouchAverage with samples of 1..255              *)
(*   SpecCal       loop() built with an offset 0..8 and a threshold        *)
(*   SpecNegative  loop() built with a negative offset                     *)
(*   SpecHold      SpecCal with a touch that is held                       *)
(*   FairSpecHold  SpecHold, with loop() called for ever                   *)
(* A specification leaves the variables of the others at their initial     *)
(* values.                                                                 *)
(***************************************************************************)
EXTENDS Integers, Sequences, FiniteSets, TLC

VARIABLES
    \* ---- the hardware: port registers and the global interrupt flag
    mode,          \* DDRx bit of each pin: "INPUT" or "OUTPUT"
    latch,         \* PORTx bit of each pin: "LOW" or "HIGH"
    intEnabled,    \* the I flag of SREG: TRUE when interrupts are allowed
    \* ---- digitalTouchRead(pin)
    pcR,           \* the statement digitalTouchRead is at
    pin,           \* its parameter
    cycleCounter,  \* uint8_t cycleCounter
    reads,         \* history: pin reads of the charge loop in this call
    incs,          \* history: increments of cycleCounter in this call
    lastLevel,     \* history: the level the last pin read returned
    entryInt,      \* history: intEnabled when the call was entered
    result,        \* the value the call returned (-1 while none has)
    prevResult,    \* the value the call before it returned (-1 if none)
    ops,           \* history: the port and interrupt operations of this call
    \* ---- digitalTouchAverage(pin, samples) and digitalTouchMedian(pin)
    pcA,           \* the statement digitalTouchAverage is at
    samples,       \* its parameter: the number of samples to average
    i,             \* uint8_t i, the loop index
    value,         \* uint16_t value, the accumulator
    taken,         \* history: the samples digitalTouchRead returned in this call
    filtered,      \* the value the filter returned (-1 while none has)
    \* ---- loop() of the example sketch
    pcL,           \* the statement loop() is at
    ref1, ref2,    \* static uint16_t ref1, ref2
    value1, value2,      \* uint8_t value1, value2
    touched1, touched2,  \* bool touched1, touched2
    cycle,         \* history: passes of loop() completed, counted up to 4
    onScenario,    \* history: sensor 1 has so far been fed a prefix of Scenario
    \* ---- the touch decision and self calibration of one sensor, any offset
    pcC,           \* the statement the pass of loop() is at
    calOffset,     \* the value offset is defined as in this build
    calThreshold,  \* the value sensorThreshold is defined as in this build
    shiftCount,    \* the count the shifts of this build shift by
    prevRef,       \* history: ref1 when this pass of loop() began
    lastUpdate,    \* history: the branch the last update of ref1 took
    \* ---- a touch that is held: the filtered value stays the same
    holdBase,      \* the filtered value of the first pass, which snaps to it
    holdSample,    \* the filtered value of every later pass
    heldCycles,    \* history: passes completed with the held value
    touchedCycles  \* history: passes with the held value that decided touched

\* ---------------------------------------------------------------------------
\* Types and program constants
\* ---------------------------------------------------------------------------

\* #define sensor1 53, #define sensor2 51 of the example sketch
sensor1 == 53
sensor2 == 51
Pins == {sensor1, sensor2}

\* uint8_t and uint16_t arithmetic: results are reduced modulo 2^8 and 2^16
Uint8(x) == x % 256
Uint16(x) == x % 65536

\* the values digitalTouchRead is taken to return in the filter checks:
\* short charge times and the saturation value
MaxSample == 1
SampleValues == (0..MaxSample) \cup {255}

\* the sample counts tried for digitalTouchAverage, 0 included
MaxSamples == 5
SampleCounts == 0..MaxSamples

hwVars == <<mode, latch, intEnabled>>
filterVars == <<pcA, samples, i, value, taken, filtered>>
loopVars == <<pcL, ref1, ref2, value1, value2, touched1, touched2, cycle,
              onScenario>>
calVars == <<pcC, calOffset, calThreshold, shiftCount, prevRef, lastUpdate>>
holdVars == <<holdBase, holdSample, heldCycles, touchedCycles>>
notReadVars == <<filterVars, loopVars, calVars, holdVars>>
readVars == <<pcR, pin, cycleCounter, reads, incs, lastLevel, entryInt,
              result, prevResult, ops>>

\* ---------------------------------------------------------------------------
\* digitalTouchRead(pin), DigitalTouch.h lines 668-771 (generic version, no
\* sensorN_read defined: the example sketch as shipped)
\* ---------------------------------------------------------------------------

\* uint8_t cycleCounter = 1;  "start at 1, 0 is overflow"
CounterStart == 1

\* the condition of  while (!(*inputRegister & inputMask) && cycleCounter):
\* level is the pin level the read returned, c the counter
LoopContinues(level, c) == (~level) /\ c # 0

\* mutant: the counter is wider than 8 bits and never wraps to 0
IncrementWide(c) == c + 1

\* cycleCounter++ on a uint8_t
Increment(c) == Uint8(c + 1)

\* mutant: return cycleCounter--; the counter is returned undecremented
ReturnPostDecrement(c) == c

\* mutant: the decrement does not wrap, an overflowed counter returns 0
ReturnNoWrap(c) == IF c = 0 THEN 0 ELSE c - 1

\* return --cycleCounter; on a uint8_t
ReturnValue(c) == Uint8(c - 1)

\* digitalWrite(pin, LOW): entry of the call, the sensor cap is discharged
ReadDriveLow(p) ==
    /\ pcR = "idle"
    /\ UNCHANGED notReadVars
    /\ pin' = p
    /\ latch' = [latch EXCEPT ![p] = "LOW"]
    /\ entryInt' = intEnabled
    /\ reads' = 0
    /\ incs' = 0
    /\ lastLevel' = FALSE
    /\ prevResult' = result
    /\ result' = -1
    /\ ops' = <<"driveLow">>
    /\ pcR' = "init"
    /\ UNCHANGED <<mode, intEnabled, cycleCounter>>

\* uint8_t cycleCounter = 1;
ReadInitCounter ==
    /\ pcR = "init"
    /\ UNCHANGED notReadVars
    /\ cycleCounter' = CounterStart
    /\ pcR' = "noInterrupts"
    /\ UNCHANGED <<hwVars, pin, reads, incs, lastLevel, entryInt, result, prevResult, ops>>

\* mutant: noInterrupts() is left out
ReadNoInterruptsMissing ==
    /\ pcR = "noInterrupts"
    /\ UNCHANGED notReadVars
    /\ pcR' = "input"
    /\ UNCHANGED <<hwVars, pin, cycleCounter, reads, incs, lastLevel,
                   entryInt, result, prevResult, ops>>

\* noInterrupts();
ReadNoInterrupts ==
    /\ pcR = "noInterrupts"
    /\ UNCHANGED notReadVars
    /\ intEnabled' = FALSE
    /\ ops' = Append(ops, "noInterrupts")
    /\ pcR' = "input"
    /\ UNCHANGED <<mode, latch, pin, cycleCounter, reads, incs, lastLevel,
                   entryInt, result, prevResult>>

\* pinMode(pin, INPUT);
ReadPinModeInput ==
    /\ pcR = "input"
    /\ UNCHANGED notReadVars
    /\ mode' = [mode EXCEPT ![pin] = "INPUT"]
    /\ ops' = Append(ops, "input")
    /\ pcR' = "loop"
    /\ UNCHANGED <<latch, intEnabled, pin, cycleCounter, reads, incs, lastLevel,
                   entryInt, result, prevResult>>

\* one evaluation of the while condition, and the body when it holds:
\* the pin is read (any level), then the counter is tested
ReadChargeLoop ==
    /\ pcR = "loop"
    /\ UNCHANGED notReadVars
    /\ \E level \in BOOLEAN :
          /\ reads' = reads + 1
          /\ lastLevel' = level
          /\ ops' = IF ops[Len(ops)] = "read" THEN ops ELSE Append(ops, "read")
          /\ IF LoopContinues(level, cycleCounter)
                THEN /\ cycleCounter' = Increment(cycleCounter)
                     /\ incs' = incs + 1
                     /\ pcR' = "loop"
                ELSE /\ pcR' = "interrupts"
                     /\ UNCHANGED <<cycleCounter, incs>>
    /\ UNCHANGED <<hwVars, pin, entryInt, result, prevResult>>

\* interrupts();
ReadInterrupts ==
    /\ pcR = "interrupts"
    /\ UNCHANGED notReadVars
    /\ intEnabled' = TRUE
    /\ ops' = Append(ops, "interrupts")
    /\ pcR' = "output"
    /\ UNCHANGED <<mode, latch, pin, cycleCounter, reads, incs, lastLevel,
                   entryInt, result, prevResult>>

\* mutant: the pin is left an input, pinMode(pin, OUTPUT) is left out
ReadPinModeOutputMissing ==
    /\ pcR = "output"
    /\ UNCHANGED notReadVars
    /\ pcR' = "return"
    /\ UNCHANGED <<hwVars, pin, cycleCounter, reads, incs, lastLevel,
                   entryInt, result, prevResult, ops>>

\* pinMode(pin, OUTPUT);
ReadPinModeOutput ==
    /\ pcR = "output"
    /\ UNCHANGED notReadVars
    /\ mode' = [mode EXCEPT ![pin] = "OUTPUT"]
    /\ ops' = Append(ops, "output")
    /\ pcR' = "return"
    /\ UNCHANGED <<latch, intEnabled, pin, cycleCounter, reads, incs, lastLevel,
                   entryInt, result, prevResult>>

\* return --cycleCounter;
ReadReturn ==
    /\ pcR = "return"
    /\ UNCHANGED notReadVars
    /\ cycleCounter' = ReturnValue(cycleCounter)
    /\ result' = ReturnValue(cycleCounter)
    /\ pcR' = "idle"
    /\ UNCHANGED <<hwVars, pin, reads, incs, lastLevel, entryInt, prevResult, ops>>

\* the statements of digitalTouchRead after its entry
ReadStep ==
    \/ ReadInitCounter
    \/ ReadNoInterrupts
    \/ ReadPinModeInput
    \/ ReadChargeLoop
    \/ ReadInterrupts
    \/ ReadPinModeOutput
    \/ ReadReturn

\* ---------------------------------------------------------------------------
\* digitalTouchRead_N(), DigitalTouch.h lines 184-662: the hard-coded version
\* of sensor N, compiled when sensorN_read is defined; digitalTouchRead(pin)
\* then passes the call on to it (lines 671-718). The sixteen functions
\* differ in N only. The sketch defines the macros as operations on the bit
\* of the pin in DDRx, PORTx and PINx.
\* ---------------------------------------------------------------------------

\* sensorN_low: PORTx = PORTx & ~bit
SensorLow(p) == latch' = [latch EXCEPT ![p] = "LOW"]

\* sensorN_input: DDRx = DDRx & ~bit
SensorInput(p) == mode' = [mode EXCEPT ![p] = "INPUT"]

\* sensorN_output: DDRx = DDRx | bit
SensorOutput(p) == mode' = [mode EXCEPT ![p] = "OUTPUT"]

\* if (pin == sensorN) return digitalTouchRead_N(); and its first statement
\* sensorN_low;
HardDriveLow(p) ==
    /\ pcR = "idle"
    /\ UNCHANGED notReadVars
    /\ pin' = p
    /\ SensorLow(p)
    /\ entryInt' = intEnabled
    /\ reads' = 0
    /\ incs' = 0
    /\ lastLevel' = FALSE
    /\ prevResult' = result
    /\ result' = -1
    /\ ops' = <<"driveLow">>
    /\ pcR' = "init"
    /\ UNCHANGED <<mode, intEnabled, cycleCounter>>

\* uint8_t cycleCounter = 1;
HardInitCounter ==
    /\ pcR = "init"
    /\ UNCHANGED notReadVars
    /\ cycleCounter' = CounterStart
    /\ pcR' = "noInterrupts"
    /\ UNCHANGED <<hwVars, pin, reads, incs, lastLevel, entryInt, result,
                   prevResult, ops>>

\* mutant: the hard-coded version makes the pin an input with interrupts
\* still allowed
HardNoInterruptsMissing ==
    /\ pcR = "noInterrupts"
    /\ UNCHANGED notReadVars
    /\ pcR' = "input"
    /\ UNCHANGED <<hwVars, pin, cycleCounter, reads, incs, lastLevel,
                   entryInt, result, prevResult, ops>>

\* noInterrupts();
HardNoInterrupts ==
    /\ pcR = "noInterrupts"
    /\ UNCHANGED notReadVars
    /\ intEnabled' = FALSE
    /\ ops' = Append(ops, "noInterrupts")
    /\ pcR' = "input"
    /\ UNCHANGED <<mode, latch, pin, cycleCounter, reads, incs, lastLevel,
                   entryInt, result, prevResult>>

\* sensorN_input;
HardPinModeInput ==
    /\ pcR = "input"
    /\ UNCHANGED notReadVars
    /\ SensorInput(pin)
    /\ ops' = Append(ops, "input")
    /\ pcR' = "loop"
    /\ UNCHANGED <<latch, intEnabled, pin, cycleCounter, reads, incs, lastLevel,
                   entryInt, result, prevResult>>

\* while (!sensorN_read && cycleCounter) cycleCounter++; one evaluation of
\* the condition, and the body when it holds
HardChargeLoop ==
    /\ pcR = "loop"
    /\ UNCHANGED notReadVars
    /\ \E level \in BOOLEAN :
          /\ reads' = reads + 1
          /\ lastLevel' = level
          /\ ops' = IF ops[Len(ops)] = "read" THEN ops ELSE Append(ops, "read")
          /\ IF (~level) /\ cycleCounter # 0
                THEN /\ cycleCounter' = Uint8(cycleCounter + 1)
                     /\ incs' = incs + 1
                     /\ pcR' = "loop"
                ELSE /\ pcR' = "interrupts"
                     /\ UNCHANGED <<cycleCounter, incs>>
    /\ UNCHANGED <<hwVars, pin, entryInt, result, prevResult>>

\* interrupts();
HardInterrupts ==
    /\ pcR = "interrupts"
    /\ UNCHANGED notReadVars
    /\ intEnabled' = TRUE
    /\ ops' = Append(ops, "interrupts")
    /\ pcR' = "output"
    /\ UNCHANGED <<mode, latch, pin, cycleCounter, reads, incs, lastLevel,
                   entryInt, result, prevResult>>

\* sensorN_output;
HardPinModeOutput ==
    /\ pcR = "output"
    /\ UNCHANGED notReadVars
    /\ SensorOutput(pin)
    /\ ops' = Append(ops, "output")
    /\ pcR' = "return"
    /\ UNCHANGED <<latch, intEnabled, pin, cycleCounter, reads, incs, lastLevel,
                   entryInt, result, prevResult>>

\* return --cycleCounter;
HardReturn ==
    /\ pcR = "return"
    /\ UNCHANGED notReadVars
    /\ cycleCounter' = Uint8(cycleCounter - 1)
    /\ result' = Uint8(cycleCounter - 1)
    /\ pcR' = "idle"
    /\ UNCHANGED <<hwVars, pin, reads, incs, lastLevel, entryInt, prevResult,
                   ops>>

\* ---------------------------------------------------------------------------
\* The filters call digitalTouchRead; the value a call returns is decided by
\* the pin alone (any of 0..255, see SpecRead) and is an input of the filter
\* steps below, drawn from SampleValues.
\* ---------------------------------------------------------------------------

\* what a finished call of digitalTouchRead(p) leaves in the hardware: the
\* port bit low, the pin an output, interrupts allowed
ReadEffects(p) ==
    /\ latch' = [latch EXCEPT ![p] = "LOW"]
    /\ mode' = [mode EXCEPT ![p] = "OUTPUT"]
    /\ intEnabled' = TRUE

\* ---------------------------------------------------------------------------
\* digitalTouchAverage(pin, samples), DigitalTouch.h lines 779-794
\* ---------------------------------------------------------------------------

\* mutant: the accumulator is a uint8_t
AccumulateNarrow(v, sample) == Uint8(v + sample)

\* value += (uint16_t)digitalTouchRead(pin); on a uint16_t
Accumulate(v, sample) == Uint16(v + sample)

\* mutant: the quotient is rounded to nearest
AverageRounded(v, n) == Uint8((v + (n \div 2)) \div n)

\* (uint8_t)(value / (uint16_t)samples), samples # 0
AverageOf(v, n) == Uint8(v \div n)

\* mutant: the first sample is added to the sum instead of being ignored
AvgStartCounted(p, n, sample) ==
    /\ pcA = "idle"
    /\ UNCHANGED <<loopVars, calVars, holdVars>>
    /\ pin' = p
    /\ samples' = n
    /\ value' = sample
    /\ taken' = <<sample>>
    /\ ReadEffects(p)
    /\ i' = 0
    /\ filtered' = -1
    /\ pcA' = "loop"
    /\ UNCHANGED <<pcR, cycleCounter, reads, incs, lastLevel, entryInt,
                   result, prevResult, ops>>

\* uint16_t value = 0; digitalTouchRead(pin); (ignored) and uint8_t i = 0,
\* the history of samples left aside
AvgStartCore(p, n) ==
    /\ pcA = "idle"
    /\ UNCHANGED <<loopVars, calVars, holdVars>>
    /\ pin' = p
    /\ samples' = n
    /\ value' = 0
    /\ ReadEffects(p)
    /\ i' = 0
    /\ filtered' = -1
    /\ pcA' = "loop"
    /\ UNCHANGED <<pcR, cycleCounter, reads, incs, lastLevel, entryInt,
                   result, prevResult, ops>>

\* the same, the ignored sample recorded
AvgStart(p, n, sample) ==
    /\ AvgStartCore(p, n)
    /\ taken' = <<sample>>

\* one test of  i < samples  and, when it holds, the loop body and i++, the
\* history of samples left aside
AvgLoopCore(sample) ==
    /\ pcA = "loop"
    /\ UNCHANGED <<loopVars, calVars, holdVars>>
    /\ IF i < samples
         THEN /\ value' = Accumulate(value, sample)
              /\ ReadEffects(pin)
              /\ i' = Uint8(i + 1)
              /\ pcA' = "loop"
         ELSE /\ pcA' = "divide"
              /\ UNCHANGED <<hwVars, value, i>>
    /\ UNCHANGED <<pcR, pin, cycleCounter, reads, incs, lastLevel, entryInt,
                   result, prevResult, ops, samples, filtered>>

\* the same, the sample recorded when the body is run
AvgLoop(sample) ==
    /\ AvgLoopCore(sample)
    /\ taken' = IF i < samples THEN Append(taken, sample) ELSE taken

\* digitalTouchAverage called with any samples of 1..255, the uint8_t
\* values other than 0, and fed the smallest and the largest value
\* digitalTouchRead returns; no history of samples is kept
WideCounts == 1..255
WideSamples == {0, 255}

AvgWideStart(n) ==
    /\ AvgStartCore(sensor1, n)
    /\ UNCHANGED taken

\* a call with any sample count
AvgWideCall ==
    /\ pcA = "idle"
    /\ \E n \in WideCounts : AvgWideStart(n)

AvgWideLoop(sample) ==
    /\ AvgLoopCore(sample)
    /\ UNCHANGED taken

\* return (uint8_t)(value / (uint16_t)samples); a division by zero is
\* undefined behaviour: any 8-bit value may come back
AvgReturn ==
    /\ pcA = "divide"
    /\ UNCHANGED <<loopVars, calVars, holdVars>>
    /\ IF samples = 0
         THEN filtered' \in 0..255
         ELSE filtered' = AverageOf(value, samples)
    /\ pcA' = "averageDone"
    /\ UNCHANGED <<hwVars, readVars, samples, i, value, taken>>

\* ---------------------------------------------------------------------------
\* digitalTouchMedian(pin), DigitalTouch.h lines 803-832
\* ---------------------------------------------------------------------------

\* mutant: the first test of the second branch compares the wrong way round
Median3Flipped(v0, v1, v2) ==
    IF v0 < v1
        THEN IF v1 < v2 THEN v1
             ELSE IF v0 < v2 THEN v2
             ELSE v0
        ELSE IF v1 < v2 THEN v1
             ELSE IF v2 < v0 THEN v2
             ELSE v0

\* the decision tree of lines 814-831 (v0, v1, v2 are value0, value1, value2
\* of digitalTouchMedian)
Median3(v0, v1, v2) ==
    IF v0 < v1
        THEN IF v1 < v2 THEN v1
             ELSE IF v0 < v2 THEN v2
             ELSE v0
        ELSE IF v2 < v1 THEN v1
             ELSE IF v2 < v0 THEN v2
             ELSE v0

\* mutant: the test of line 823 is  value2 <= value1
Median3ReturnLoose(v0, v1, v2) ==
    IF v0 < v1
        THEN IF v1 < v2 THEN 816
             ELSE IF v0 < v2 THEN 819
             ELSE 831
        ELSE IF v2 <= v1 THEN 824
             ELSE IF v2 < v0 THEN 827
             ELSE 831

\* the return statement the decision tree leaves by, as its line in
\* DigitalTouch.h: 816 and 824 are  return value1;  819 and 827 are
\* return value2;  831 is the final  return value0;
Median3Return(v0, v1, v2) ==
    IF v0 < v1
        THEN IF v1 < v2 THEN 816
             ELSE IF v0 < v2 THEN 819
             ELSE 831
        ELSE IF v2 < v1 THEN 824
             ELSE IF v2 < v0 THEN 827
             ELSE 831

\* mutant: the first sample is not thrown away but taken as value0
MedianCallFirstUsed(p, ignored, v0, v1, v2) ==
    /\ pcA = "idle"
    /\ UNCHANGED <<loopVars, calVars, holdVars>>
    /\ pin' = p
    /\ taken' = <<ignored, v0, v1, v2>>
    /\ ReadEffects(p)
    /\ filtered' = Median3(ignored, v0, v1)
    /\ pcA' = "medianDone"
    /\ UNCHANGED <<pcR, cycleCounter, reads, incs, lastLevel, entryInt,
                   result, prevResult, ops, samples, i, value>>

\* the whole call: four samples, the first ignored, the median of the rest
MedianCall(p, ignored, v0, v1, v2) ==
    /\ pcA = "idle"
    /\ UNCHANGED <<loopVars, calVars, holdVars>>
    /\ pin' = p
    /\ taken' = <<ignored, v0, v1, v2>>
    /\ ReadEffects(p)
    /\ filtered' = Median3(v0, v1, v2)
    /\ pcA' = "medianDone"
    /\ UNCHANGED <<pcR, cycleCounter, reads, incs, lastLevel, entryInt,
                   result, prevResult, ops, samples, i, value>>

\* the caller has taken the value a filter returned; the locals of the call
\* are gone
FilterDone ==
    /\ pcA \in {"averageDone", "medianDone"}
    /\ UNCHANGED <<loopVars, calVars, holdVars>>
    /\ pcA' = "idle"
    /\ samples' = 1
    /\ i' = 0
    /\ value' = 0
    /\ taken' = <<>>
    /\ filtered' = -1
    /\ UNCHANGED <<hwVars, readVars>>

\* ---------------------------------------------------------------------------
\* loop() of the example sketch, DigitalTouch.ino lines 98-178, as shipped:
\* no sensorN_read/_high/_low macros, so the generic functions are used
\* ---------------------------------------------------------------------------

\* #define offset 4, #define samples 5, #define sensorThreshold 4
offset == 4
sketchSamples == 5
sensorThreshold == 4

\* the values one digitalTouchRead of sensor 1 / sensor 2 returns in loop():
\* an untouched and a touched sensor
Samples1 == {10, 30}
Samples2 == {10, 15}

\* the run of filtered values of sensor 1 followed by the history variables
Scenario == <<10, 10, 30>>

\* 2^n for the shift counts 0..16
Pow2(n) == CASE n = 0 -> 1 [] n = 1 -> 2 [] n = 2 -> 4 [] n = 3 -> 8
             [] n = 4 -> 16 [] n = 5 -> 32 [] n = 6 -> 64 [] n = 7 -> 128
             [] n = 8 -> 256 [] n = 9 -> 512 [] n = 10 -> 1024
             [] n = 11 -> 2048 [] n = 12 -> 4096 [] n = 13 -> 8192
             [] n = 14 -> 16384 [] n = 15 -> 32768 [] n = 16 -> 65536

\* #if offset > 8 / #error "Too big offset value": a build with an offset
\* above 8 does not compile
MaxOffset == 8

\* the offsets for which ref >> offset and value << offset are defined, the
\* range the sketch is meant to be configured in
DefinedOffsets == 0..MaxOffset

\* the guard has no lower end: a build with a negative offset compiles and
\* shifts by a negative count, which is undefined. Two such builds are
\* followed
NegativeOffsets == {-8, -1}

\* what the shifts of a build with a negative offset do is fixed by the
\* compiler and the processor: they shift by a count of their own, by 16 or
\* more (all bits shifted out, which x86-64 gives for -1 and -8) or by less.
\* The build picks one count for all its shifts
UndefinedCounts == 0..16

\* the filtered values of sensor 1 in a build with a negative offset
NegativeValues == {10, 30}

\* the thresholds tried besides that of the sketch
Thresholds == {0, sensorThreshold}

\* the filtered values fed to the calibration of one sensor: the extremes,
\* an untouched and a touched sensor
CalValues == {0, 10, 30, 255}

\* the filtered value of sensor 2 while sensor 1 is followed: a sensor
\* that is not touched
CalValues2 == {10}

\* the filtered values fed to the first pass, with ref1 still 0xFFFF: every
\* uint8_t value
FirstValues == 0..255

\* mutant: the shift is left out, the baseline is the low byte of ref
BaselineUnshifted(ref, off) == Uint8(ref)

\* (uint8_t)(ref >> offset)
Baseline(ref, off) == Uint8(ref \div Pow2(off))

\* mutant: the comparison with the threshold is >=
TouchedAtLeast(v, ref, off, thr) == (v - Uint8(ref \div Pow2(off))) >= thr

\* mutant: the difference is taken in 8-bit unsigned arithmetic
TouchedWrapped(v, ref, off, thr) == Uint8(v - Baseline(ref, off)) > thr

\* (value - (uint8_t)(ref >> offset)) > sensorThreshold: both operands are
\* promoted to int, the difference is signed
Touched(v, ref, off, thr) == (v - Baseline(ref, off)) > thr

\* mutant: the snap is taken only when the value is below the baseline
CalibrateStrict(v, ref, off) ==
    IF v < Baseline(ref, off)
        THEN Uint16(v * Pow2(off))
        ELSE Uint16(ref + 1)

\* mutant: the value is shifted as a uint8_t, the bits shifted out are lost
CalibrateNarrowShift(v, ref, off) ==
    IF v <= Uint8(ref \div Pow2(off))
        THEN Uint8(v * Pow2(off))
        ELSE Uint16(ref + 1)

\* mutant: the snap shifts the value one bit too far
CalibrateShiftOneMore(v, ref, off) ==
    IF v <= Uint8(ref \div Pow2(off))
        THEN Uint16(v * Pow2(off) * 2)
        ELSE Uint16(ref + 1)

\* mutant: the cool down raises ref by 2
CalibrateCoolTwo(v, ref, off) ==
    IF v <= Uint8(ref \div Pow2(off))
        THEN Uint16(v * Pow2(off))
        ELSE Uint16(ref + 2)

\* mutant: the cool down raises ref by a whole step of the baseline
CalibrateCoolStep(v, ref, off) ==
    IF v <= Uint8(ref \div Pow2(off))
        THEN Uint16(v * Pow2(off))
        ELSE Uint16(ref + Pow2(off))

\* if (value <= (uint8_t)(ref >> offset)) ref = ((uint16_t)value << offset);
\* else ref++;
Calibrate(v, ref, off) ==
    IF v <= Baseline(ref, off)
        THEN Uint16(v * Pow2(off))
        ELSE Uint16(ref + 1)

\* the for loop of digitalTouchAverage over the samples q[2], q[3], ... that
\* its calls of digitalTouchRead return, from accumulator v and index k
RECURSIVE AccumulateAll(_, _, _, _)
AccumulateAll(v, k, q, n) ==
    IF k < n
        THEN AccumulateAll(Accumulate(v, q[k + 2]), Uint8(k + 1), q, n)
        ELSE v

\* a whole call digitalTouchAverage(pin, n), n # 0, whose n+1 calls of
\* digitalTouchRead return q[1] .. q[n+1]
DigitalTouchAverage(q, n) == AverageOf(AccumulateAll(0, 0, q, n), n)

\* mutant: sensorLEDsOff() clears the port bit of sensor 1 only
LoopLEDsOffFirstOnly ==
    /\ pcL = "ledsOff"
    /\ UNCHANGED <<calVars, holdVars>>
    /\ latch' = [latch EXCEPT ![sensor1] = "LOW"]
    /\ pcL' = "sample1"
    /\ UNCHANGED <<mode, intEnabled, readVars, filterVars, ref1, ref2, value1,
                   value2, touched1, touched2, cycle, onScenario>>

\* sensorLEDsOff(): every sensor port bit low
LoopLEDsOff ==
    /\ pcL = "ledsOff"
    /\ UNCHANGED <<calVars, holdVars>>
    /\ latch' = [p \in Pins |-> "LOW"]
    /\ pcL' = "sample1"
    /\ UNCHANGED <<mode, intEnabled, readVars, filterVars, ref1, ref2, value1,
                   value2, touched1, touched2, cycle, onScenario>>

\* uint8_t value1 = digitalTouchAverage(sensor1, samples);
LoopSample1 ==
    /\ pcL = "sample1"
    /\ UNCHANGED <<calVars, holdVars>>
    /\ \E q \in [1..(sketchSamples + 1) -> Samples1] :
          value1' = DigitalTouchAverage(q, sketchSamples)
    /\ ReadEffects(sensor1)
    /\ onScenario' = (/\ onScenario
                      /\ cycle < Len(Scenario)
                      /\ value1' = Scenario[cycle + 1])
    /\ pcL' = "sample2"
    /\ UNCHANGED <<readVars, filterVars, ref1, ref2, value2, touched1, touched2,
                   cycle>>

\* uint8_t value2 = digitalTouchMedian(sensor2);
LoopSample2 ==
    /\ pcL = "sample2"
    /\ UNCHANGED <<calVars, holdVars>>
    /\ \E s0, s1, s2, s3 \in Samples2 : value2' = Median3(s1, s2, s3)
    /\ ReadEffects(sensor2)
    /\ pcL' = "decide"
    /\ UNCHANGED <<readVars, filterVars, ref1, ref2, value1, touched1, touched2,
                   cycle, onScenario>>

\* bool touched1 = ...; bool touched2 = ...;
LoopDecide ==
    /\ pcL = "decide"
    /\ UNCHANGED <<calVars, holdVars>>
    /\ touched1' = Touched(value1, ref1, offset, sensorThreshold)
    /\ touched2' = Touched(value2, ref2, offset, sensorThreshold)
    /\ pcL' = "drive"
    /\ UNCHANGED <<hwVars, readVars, filterVars, ref1, ref2, value1, value2,
                   cycle, onScenario>>

\* mutant: only the LED of sensor 1 is driven
LoopDriveLEDsFirstOnly ==
    /\ pcL = "drive"
    /\ UNCHANGED <<calVars, holdVars>>
    /\ latch' = [latch EXCEPT ![sensor1] = IF touched1 THEN "HIGH" ELSE "LOW"]
    /\ pcL' = "calibrate"
    /\ UNCHANGED <<mode, intEnabled, readVars, filterVars, ref1, ref2, value1,
                   value2, touched1, touched2, cycle, onScenario>>

\* digitalWrite(sensor1, touched1); digitalWrite(sensor2, touched2);
LoopDriveLEDs ==
    /\ pcL = "drive"
    /\ UNCHANGED <<calVars, holdVars>>
    /\ latch' = [p \in Pins |->
                   IF (p = sensor1 /\ touched1) \/ (p = sensor2 /\ touched2)
                       THEN "HIGH" ELSE "LOW"]
    /\ pcL' = "calibrate"
    /\ UNCHANGED <<mode, intEnabled, readVars, filterVars, ref1, ref2, value1,
                   value2, touched1, touched2, cycle, onScenario>>

\* mutant: the calibration of sensor 2 compares and stores value1
LoopCalibrateCrossed ==
    /\ pcL = "calibrate"
    /\ UNCHANGED <<calVars, holdVars>>
    /\ ref1' = Calibrate(value1, ref1, offset)
    /\ ref2' = Calibrate(value1, ref2, offset)
    /\ value1' = 0
    /\ value2' = 0
    /\ touched1' = FALSE
    /\ touched2' = FALSE
    /\ cycle' = IF cycle <= Len(Scenario) THEN cycle + 1 ELSE cycle
    /\ pcL' = "ledsOff"
    /\ UNCHANGED <<hwVars, readVars, filterVars, onScenario>>

\* mutant: the reference of a touched sensor is left alone
LoopCalibrateUntouched ==
    /\ pcL = "calibrate"
    /\ UNCHANGED <<calVars, holdVars>>
    /\ ref1' = IF touched1 THEN ref1 ELSE Calibrate(value1, ref1, offset)
    /\ ref2' = IF touched2 THEN ref2 ELSE Calibrate(value2, ref2, offset)
    /\ value1' = 0
    /\ value2' = 0
    /\ touched1' = FALSE
    /\ touched2' = FALSE
    /\ cycle' = IF cycle <= Len(Scenario) THEN cycle + 1 ELSE cycle
    /\ pcL' = "ledsOff"
    /\ UNCHANGED <<hwVars, readVars, filterVars, onScenario>>

\* "Self calibrate" / "Cool down" of both sensors, then delay(100): the pass
\* of loop() is complete and its locals are gone
LoopCalibrate ==
    /\ pcL = "calibrate"
    /\ UNCHANGED <<calVars, holdVars>>
    /\ ref1' = Calibrate(value1, ref1, offset)
    /\ ref2' = Calibrate(value2, ref2, offset)
    /\ value1' = 0
    /\ value2' = 0
    /\ touched1' = FALSE
    /\ touched2' = FALSE
    /\ cycle' = IF cycle <= Len(Scenario) THEN cycle + 1 ELSE cycle
    /\ pcL' = "ledsOff"
    /\ UNCHANGED <<hwVars, readVars, filterVars, onScenario>>

\* ---------------------------------------------------------------------------
\* loop() in three steps, for the offsets of DefinedOffsets and the
\* thresholds of Thresholds. The filtered value of sensor 1 is an input of a pass;
\* sensor 2 is left alone and gives the one filtered value of CalValues2.
\* ---------------------------------------------------------------------------

\* lines 105-110 of a new pass: sensorLEDsOff(); value1 =
\* digitalTouchAverage(sensor1, samples); value2 = digitalTouchMedian(sensor2);
\* the calls of digitalTouchRead leave both pins outputs with the port bit
\* low and interrupts allowed
CalSample(v) ==
    /\ pcC = "sample"
    /\ value1' = v
    /\ \E w \in CalValues2 : value2' = w
    /\ latch' = [p \in Pins |-> "LOW"]
    /\ mode' = [p \in Pins |-> "OUTPUT"]
    /\ intEnabled' = TRUE
    /\ touched1' = FALSE
    /\ touched2' = FALSE
    /\ prevRef' = ref1
    /\ lastUpdate' = "none"
    /\ pcC' = "decide"
    /\ UNCHANGED <<readVars, filterVars, pcL, ref1, ref2, cycle, onScenario,
                   calOffset, calThreshold, shiftCount>>

\* the first pass of loop(): ref1 is 0xFFFF still
CalFirstSample ==
    /\ ref1 = 65535
    /\ \E v \in FirstValues : CalSample(v)

\* lines 113-127: bool touched1 = (value1 - (uint8_t)(ref1 >> offset)) >
\* sensorThreshold; the same for sensor 2; digitalWrite(sensor1, touched1);
\* digitalWrite(sensor2, touched2);
CalDecide ==
    /\ pcC = "decide"
    /\ touched1' = Touched(value1, ref1, calOffset, calThreshold)
    /\ touched2' = Touched(value2, ref2, calOffset, calThreshold)
    /\ latch' = [p \in Pins |->
                   IF (p = sensor1 /\ touched1') \/ (p = sensor2 /\ touched2')
                       THEN "HIGH" ELSE "LOW"]
    /\ pcC' = "update"
    /\ UNCHANGED <<mode, intEnabled, readVars, filterVars, pcL, ref1, ref2,
                   value1, value2, cycle, onScenario, calOffset, calThreshold,
                   shiftCount, prevRef, lastUpdate>>

\* lines 166-177: if (value1 <= (uint8_t)(ref1 >> offset)) ref1 =
\* ((uint16_t)value1 << offset); else ref1++; the same for sensor 2; delay
CalUpdate ==
    /\ pcC = "update"
    /\ ref1' = Calibrate(value1, ref1, calOffset)
    /\ ref2' = Calibrate(value2, ref2, calOffset)
    /\ lastUpdate' = IF value1 <= Baseline(ref1, calOffset)
                         THEN "snap" ELSE "cool"
    /\ pcC' = "sample"
    /\ UNCHANGED <<hwVars, readVars, filterVars, pcL, value1, value2,
                   touched1, touched2, cycle, onScenario, calOffset,
                   calThreshold, shiftCount, prevRef>>

\* ---------------------------------------------------------------------------
\* loop() in a build with a negative offset: the shifts of lines 113, 114,
\* 166, 167, 171 and 172 are undefined and shift by the count of the build
\* ---------------------------------------------------------------------------

\* lines 105-110 of a new pass
NegativeSample(v) ==
    /\ pcC = "sample"
    /\ value1' = v
    /\ \E w \in CalValues2 : value2' = w
    /\ latch' = [p \in Pins |-> "LOW"]
    /\ mode' = [p \in Pins |-> "OUTPUT"]
    /\ intEnabled' = TRUE
    /\ touched1' = FALSE
    /\ touched2' = FALSE
    /\ prevRef' = ref1
    /\ lastUpdate' = "none"
    /\ pcC' = "decide"
    /\ UNCHANGED <<readVars, filterVars, pcL, ref1, ref2, cycle, onScenario,
                   calOffset, calThreshold, shiftCount, holdVars>>

\* lines 113-127: the touch decisions and the LED writes
NegativeDecide ==
    /\ pcC = "decide"
    /\ touched1' = Touched(value1, ref1, shiftCount, calThreshold)
    /\ touched2' = Touched(value2, ref2, shiftCount, calThreshold)
    /\ latch' = [p \in Pins |->
                   IF (p = sensor1 /\ touched1') \/ (p = sensor2 /\ touched2')
                       THEN "HIGH" ELSE "LOW"]
    /\ pcC' = "update"
    /\ UNCHANGED <<mode, intEnabled, readVars, filterVars, pcL, ref1, ref2,
                   value1, value2, cycle, onScenario, calOffset, calThreshold,
                   shiftCount, prevRef, lastUpdate, holdVars>>

\* lines 166-177: the calibration of both references; ref++ is defined and
\* wraps from 0xFFFF to 0
NegativeUpdate ==
    /\ pcC = "update"
    /\ ref1' = Calibrate(value1, ref1, shiftCount)
    /\ ref2' = Calibrate(value2, ref2, shiftCount)
    /\ lastUpdate' = IF value1 <= Baseline(ref1, shiftCount)
                         THEN "snap" ELSE "cool"
    /\ pcC' = "sample"
    /\ UNCHANGED <<hwVars, readVars, filterVars, pcL, value1, value2,
                   touched1, touched2, cycle, onScenario, calOffset,
                   calThreshold, shiftCount, prevRef, holdVars>>

\* ---------------------------------------------------------------------------
\* A held touch: the first pass of loop() snaps ref1 to the filtered value
\* holdBase, every later pass gets the filtered value holdSample
\* ---------------------------------------------------------------------------

\* the untouched and the touched filtered values tried
HoldBases == {0, 10}
HoldSamples == {5, 15, 30}

\* the passes after which ref1 has cooled down to holdSample << offset; the
\* count of passes is kept up to two more
HoldEnd == (holdSample - holdBase) * Pow2(calOffset)

\* lines 105-110 with the filtered value of sensor 1 fixed by the pass
HoldSample ==
    /\ CalSample(IF ref1 = 65535 THEN holdBase ELSE holdSample)
    /\ UNCHANGED holdVars

\* lines 113-127 of a pass with the held value or of the first pass
HoldDecide ==
    /\ CalDecide
    /\ touchedCycles' = IF touched1' /\ prevRef # 65535
                            THEN touchedCycles + 1 ELSE touchedCycles
    /\ UNCHANGED <<holdBase, holdSample, heldCycles>>

\* lines 166-177: the calibration of both references, the end of the pass
HoldUpdate ==
    /\ CalUpdate
    /\ heldCycles' = IF prevRef # 65535 /\ heldCycles < HoldEnd + 2
                         THEN heldCycles + 1 ELSE heldCycles
    /\ UNCHANGED <<holdBase, holdSample, touchedCycles>>

\* After reset every pin is an input with its port bit cleared (DDRx = PORTx
\* = 0); the first call may come from any context, interrupts on or off.
InitHw ==
    /\ mode = [p \in Pins |-> "INPUT"]
    /\ latch = [p \in Pins |-> "LOW"]

InitReadVars ==
    /\ pcR = "idle"
    /\ pin = sensor1
    /\ cycleCounter = 0
    /\ reads = 0
    /\ incs = 0
    /\ lastLevel = FALSE
    /\ entryInt = TRUE
    /\ result = -1
    /\ prevResult = -1
    /\ ops = <<>>

InitFilterVars ==
    /\ pcA = "idle"
    /\ samples = 1
    /\ i = 0
    /\ value = 0
    /\ taken = <<>>
    /\ filtered = -1

\* static uint16_t ref1 = 0xFFFF; static uint16_t ref2 = 0xFFFF;
InitLoopVars ==
    /\ pcL = "ledsOff"
    /\ ref1 = 65535
    /\ ref2 = 65535
    /\ value1 = 0
    /\ value2 = 0
    /\ touched1 = FALSE
    /\ touched2 = FALSE
    /\ cycle = 0
    /\ onScenario = TRUE

\* the build of the example sketch as shipped
InitCalVars ==
    /\ pcC = "sample"
    /\ calOffset = offset
    /\ calThreshold = sensorThreshold
    /\ shiftCount = offset
    /\ prevRef = 65535
    /\ lastUpdate = "none"

\* no touch is held
InitHoldVars ==
    /\ holdBase = 0
    /\ holdSample = 0
    /\ heldCycles = 0
    /\ touchedCycles = 0

vars == <<hwVars, readVars, filterVars, loopVars, calVars, holdVars>>

InitRead ==
    /\ InitHw
    /\ intEnabled \in BOOLEAN
    /\ InitReadVars
    /\ InitFilterVars
    /\ InitLoopVars
    /\ InitCalVars
    /\ InitHoldVars

NextRead ==
    \/ \E p \in Pins : ReadDriveLow(p)
    \/ ReadInitCounter
    \/ ReadNoInterrupts
    \/ ReadPinModeInput
    \/ ReadChargeLoop
    \/ ReadInterrupts
    \/ ReadPinModeOutput
    \/ ReadReturn

SpecRead == InitRead /\ [][NextRead]_vars

\* digitalTouchRead with either version behind it: any statement of a call
\* is taken by the generic code or by the hard-coded function of the pin
NextBackends ==
    \/ \E p \in Pins : ReadDriveLow(p)
    \/ ReadInitCounter
    \/ ReadNoInterrupts
    \/ ReadPinModeInput
    \/ ReadChargeLoop
    \/ ReadInterrupts
    \/ ReadPinModeOutput
    \/ ReadReturn
    \/ \E p \in Pins : HardDriveLow(p)
    \/ HardInitCounter
    \/ HardNoInterrupts
    \/ HardPinModeInput
    \/ HardChargeLoop
    \/ HardInterrupts
    \/ HardPinModeOutput
    \/ HardReturn

SpecBackends == InitRead /\ [][NextBackends]_vars

\* the filters, called again and again with any sample count and any pin
\* behaviour; interrupts are on, as in loop()
InitFilter ==
    /\ InitHw
    /\ intEnabled = TRUE
    /\ InitReadVars
    /\ InitFilterVars
    /\ InitLoopVars
    /\ InitCalVars
    /\ InitHoldVars

NextFilter ==
    \/ \E p \in Pins, n \in SampleCounts, sample \in SampleValues : AvgStart(p, n, sample)
    \/ \E sample \in SampleValues : AvgLoop(sample)
    \/ AvgReturn
    \/ \E p \in Pins, s0, s1, s2, s3 \in SampleValues :
          MedianCall(p, s0, s1, s2, s3)
    \/ FilterDone

SpecFilter == InitFilter /\ [][NextFilter]_vars

\* digitalTouchAverage alone, over the whole range of its parameter samples
NextAvgWide ==
    \/ AvgWideCall
    \/ \E sample \in WideSamples : AvgWideLoop(sample)
    \/ AvgReturn
    \/ FilterDone

SpecAvgWide == InitFilter /\ [][NextAvgWide]_vars

\* the sketch: setup() has run, loop() is called again and again
InitLoop ==
    /\ InitHw
    /\ intEnabled = TRUE
    /\ InitReadVars
    /\ InitFilterVars
    /\ InitLoopVars
    /\ InitCalVars
    /\ InitHoldVars

NextLoop ==
    \/ LoopLEDsOff
    \/ LoopSample1
    \/ LoopSample2
    \/ LoopDecide
    \/ LoopDriveLEDs
    \/ LoopCalibrate

SpecLoop == InitLoop /\ [][NextLoop]_vars

\* one sensor of the sketch, built with an offset 0..8 and a threshold
InitCal ==
    /\ InitHw
    /\ intEnabled = TRUE
    /\ InitReadVars
    /\ InitFilterVars
    /\ InitLoopVars
    /\ pcC = "sample"
    /\ calOffset \in DefinedOffsets
    /\ calThreshold \in Thresholds
    /\ shiftCount = calOffset
    /\ prevRef = 65535
    /\ lastUpdate = "none"
    /\ InitHoldVars

NextCal ==
    \/ (\E v \in CalValues : CalSample(v)) /\ UNCHANGED holdVars
    \/ CalFirstSample /\ UNCHANGED holdVars
    \/ CalDecide /\ UNCHANGED holdVars
    \/ CalUpdate /\ UNCHANGED holdVars

SpecCal == InitCal /\ [][NextCal]_vars

\* the sketch built with a negative offset and a threshold
InitNegative ==
    /\ InitHw
    /\ intEnabled = TRUE
    /\ InitReadVars
    /\ InitFilterVars
    /\ InitLoopVars
    /\ pcC = "sample"
    /\ calOffset \in NegativeOffsets
    /\ calThreshold \in Thresholds
    /\ shiftCount \in UndefinedCounts
    /\ prevRef = 65535
    /\ lastUpdate = "none"
    /\ InitHoldVars

NextNegative ==
    \/ \E v \in NegativeValues : NegativeSample(v)
    \/ NegativeDecide
    \/ NegativeUpdate

SpecNegative == InitNegative /\ [][NextNegative]_vars

\* one sensor, built with an offset 0..8 and a threshold, touched from the
\* second pass of loop() on with a filtered value above baseline + threshold
InitHold ==
    /\ InitHw
    /\ intEnabled = TRUE
    /\ InitReadVars
    /\ InitFilterVars
    /\ InitLoopVars
    /\ pcC = "sample"
    /\ calOffset \in DefinedOffsets
    /\ calThreshold \in Thresholds
    /\ shiftCount = calOffset
    /\ prevRef = 65535
    /\ lastUpdate = "none"
    /\ holdBase \in HoldBases
    /\ holdSample \in HoldSamples
    /\ holdSample - holdBase > calThreshold
    /\ heldCycles = 0
    /\ touchedCycles = 0

NextHold ==
    \/ HoldSample
    \/ HoldDecide
    \/ HoldUpdate

SpecHold == InitHold /\ [][NextHold]_vars

\* loop() is called again and again without end (main() of the Arduino
\* core), each pass runs to its end
FairSpecHold == SpecHold /\ WF_vars(NextHold)

\* the processor keeps executing a call it has entered
FairSpecRead == SpecRead /\ WF_vars(ReadStep)

\* ---------------------------------------------------------------------------
\* Properties of digitalTouchRead
\* ---------------------------------------------------------------------------

\* the call has returned
Returned == pcR = "idle" /\ result # -1

\* C1: a call whose k-th pin read is the first to return high (the k-1 reads
\* before it returned low), 1 <= k <= 255, returns k-1; a pin high on the
\* first read gives 0.
C1_ReturnsReadsBeforeHigh ==
    (Returned /\ lastLevel /\ reads \in 1..255) =>
        /\ result = reads - 1
        /\ (reads = 1 => result = 0)

\* the 255th read is the first high one: the call returned 254
C1_Witness == Returned /\ lastLevel /\ reads = 255 /\ result = 254

\* C2: a call in which no pin read returns high returns 255, whatever the
\* call before it returned.
C2_SaturatesAt255 ==
    (Returned /\ ~lastLevel) => result = 255

\* two calls in a row without a high read: both returned 255
C2_Witness ==
    Returned /\ ~lastLevel /\ reads = 256 /\ result = 255 /\ prevResult = 255

\* a saturated call right after a call that returned at once
C2_WitnessAfterOther ==
    Returned /\ ~lastLevel /\ result = 255 /\ prevResult = 0

\* C3: every call returns: the charge loop increments the counter at most
\* 255 times (and reads the pin at most 256 times) whatever the pin levels
\* are, and a call that was entered reaches its return.
C3_Terminates ==
    /\ [](incs <= 255 /\ reads <= 256)
    /\ [](pcR # "idle" => <>(pcR = "idle" /\ result \in 0..255))

\* the loop ran its full length: 255 increments, ended by the counter wrap
C3_Witness == Returned /\ incs = 255 /\ cycleCounter = 255 /\ ~lastLevel

\* C4: interrupts are off before the pin is switched to input and at every
\* read and increment of the loop; they are on again, after either exit of
\* the loop, before the pin is switched back to output.
C4_CriticalSection ==
    /\ pcR \in {"input", "loop", "interrupts"} => ~intEnabled
    /\ pcR \in {"output", "return"} => intEnabled
    /\ pcR \in {"loop", "interrupts", "output"} => mode[pin] = "INPUT"
    /\ pcR \in {"init", "noInterrupts", "input"} => reads = 0

\* about to switch back to output after the counter-wrap exit, interrupts on
C4_Witness == pcR = "output" /\ ~lastLevel /\ cycleCounter = 0 /\ intEnabled

\* C5 (as claimed): the interrupt flag on return is the flag on entry.
C5_RestoresInterruptState == Returned => intEnabled = entryInt

\* ---------------------------------------------------------------------------
\* Properties of the filters
\* ---------------------------------------------------------------------------

\* the three live samples of a finished digitalTouchMedian call
Live == SubSeq(taken, 2, 4)

\* m is a middle value of the triple t: at least two of its elements are at
\* most m and at least two are at least m
IsMiddle(m, t) ==
    /\ Cardinality({k \in 1..3 : t[k] <= m}) >= 2
    /\ Cardinality({k \in 1..3 : t[k] >= m}) >= 2

\* C6: digitalTouchMedian returns the middle one of its three live samples,
\* for every triple; when two or three of them are equal it returns the
\* repeated value.
C6_MedianIsMiddle ==
    pcA = "medianDone" =>
        /\ filtered \in {Live[1], Live[2], Live[3]}
        /\ IsMiddle(filtered, Live)
        /\ \A j, k \in 1..3 : (j # k /\ Live[j] = Live[k]) => filtered = Live[j]

\* a tie that does not sit in value0: {9,5,5} gives 5 (here 255, 1, 1)
C6_Witness ==
    pcA = "medianDone" /\ Live = <<255, 1, 1>> /\ filtered = 1

\* a triple of distinct values with the median last
C6_WitnessDistinct ==
    pcA = "medianDone" /\ Live = <<0, 255, 1>> /\ filtered = 1

\* the sum of a sequence of numbers
RECURSIVE SumSeq(_)
SumSeq(q) == IF q = <<>> THEN 0 ELSE Head(q) + SumSeq(Tail(q))

\* C7: for samples >= 1 digitalTouchAverage takes samples+1 samples and
\* returns the floor of S/samples, S the sum of all but the first sample;
\* with samples = 1 that is the second sample taken.
C7_AverageIsFloor ==
    (pcA = "averageDone" /\ samples >= 1) =>
        /\ Len(taken) = samples + 1
        /\ filtered * samples <= SumSeq(Tail(taken))
        /\ SumSeq(Tail(taken)) < (filtered + 1) * samples
        /\ (samples = 1 => filtered = taken[2])

\* three samples 0, 1, 1 after an ignored 255: the average is 0, not 1
C7_Witness ==
    pcA = "averageDone" /\ samples = 3 /\ taken = <<255, 0, 1, 1>> /\ filtered = 0

\* C8 (as claimed): the division is never reached with samples = 0.
C8_ZeroSamplesGuarded == pcA = "divide" => samples # 0

\* ---------------------------------------------------------------------------
\* Properties of the touch decision and the calibration in loop()
\* ---------------------------------------------------------------------------

\* the decisions of this pass have been taken, the references are still
\* those the decisions read
Decided == pcL \in {"drive", "calibrate"}

\* C9 (as claimed): touched is the 8-bit wrapped difference value - baseline
\* compared with the threshold.
C9_WrappedDifference ==
    Decided =>
        /\ touched1 = (Uint8(value1 - Baseline(ref1, offset)) > sensorThreshold)
        /\ touched2 = (Uint8(value2 - Baseline(ref2, offset)) > sensorThreshold)

\* C9 (amended): the difference is a signed int and does not wrap: touched
\* holds exactly when the value exceeds baseline + threshold, and never
\* when the value is below the baseline.
C9_SignedDifference ==
    Decided =>
        /\ touched1 <=> (value1 > Baseline(ref1, offset) + sensorThreshold)
        /\ touched2 <=> (value2 > Baseline(ref2, offset) + sensorThreshold)
        /\ (value1 < Baseline(ref1, offset) => ~touched1)
        /\ (value2 < Baseline(ref2, offset) => ~touched2)

\* a value below the baseline whose wrapped difference exceeds the
\* threshold, decided as not touched
C9_Witness ==
    /\ Decided
    /\ value1 < Baseline(ref1, offset)
    /\ Uint8(value1 - Baseline(ref1, offset)) > sensorThreshold
    /\ ~touched1

\* what the scenario of C10 expects in its passes 1, 2, 3
ScenarioBaseline == <<255, 10, 10>>
ScenarioTouched == <<FALSE, FALSE, TRUE>>
ScenarioRef == <<160, 160, 161>>

\* C10: from ref1 = 0xFFFF with offset 4 and threshold 4, the filtered values
\* 10, 10, 30 of sensor 1 meet the baselines 255, 10, 10, give touched =
\* false, false, true and leave the reference at 160, 160, 161.
C10_Scenario ==
    /\ (onScenario /\ pcL \in {"sample2", "decide", "drive", "calibrate"}) =>
            /\ value1 = Scenario[cycle + 1]
            /\ Baseline(ref1, offset) = ScenarioBaseline[cycle + 1]
    /\ (onScenario /\ Decided) => touched1 = ScenarioTouched[cycle + 1]
    /\ (onScenario /\ cycle >= 1 /\ pcL \in {"ledsOff", "sample1"}) =>
            ref1 = ScenarioRef[cycle]
    /\ (cycle = 0 /\ pcL \in {"ledsOff", "sample1"}) => ref1 = 65535

\* the third pass of the scenario is complete
C10_Witness ==
    onScenario /\ cycle = 3 /\ pcL = "ledsOff" /\ ref1 = 161

\* the third decision of the scenario: touched with value 30 over baseline 10
C10_WitnessTouched ==
    onScenario /\ cycle = 2 /\ pcL = "calibrate" /\ touched1 /\ value1 = 30
        /\ ref1 = 160

\* ---------------------------------------------------------------------------
\* C16
\* ---------------------------------------------------------------------------

\* the port operations of the call so far, the interrupt operations left out
IsGpio(o) == o \notin {"noInterrupts", "interrupts"}
GpioOps == SelectSeq(ops, IsGpio)
GpioOrder == <<"driveLow", "input", "read", "output">>

\* C16: one measurement drives the pin low, makes it an input, reads it one
\* or more times and makes it an output, in this order and with no other port
\* operation; when the call returns the pin is an output with its port bit low
C16_GpioOrder ==
    /\ GpioOps = SubSeq(GpioOrder, 1, Len(GpioOps))
    /\ (pcR # "idle" /\ Len(GpioOps) >= 3) = (pcR # "idle" /\ reads >= 1)
    /\ pcR = "loop" => mode[pin] = "INPUT" /\ latch[pin] = "LOW"
    /\ Returned =>
          /\ GpioOps = GpioOrder
          /\ reads >= 1
          /\ mode[pin] = "OUTPUT"
          /\ latch[pin] = "LOW"

\* a call has returned after several reads of the pin
C16_Witness ==
    /\ Returned
    /\ reads > 1
    /\ GpioOps = GpioOrder
    /\ mode[pin] = "OUTPUT"
    /\ latch[pin] = "LOW"

\* ---------------------------------------------------------------------------
\* C15
\* ---------------------------------------------------------------------------

\* C15: the hard-coded function of a pin and the generic code are the same
\* program: from any state of a call, a statement of the one changes the
\* port registers, the interrupt flag, the counter, the record of operations
\* and the returned value exactly as that statement of the other does, so
\* both run through the same operations in the same order and return the
\* same value for the same pin levels
C15_SameBackend ==
    [][/\ \A p \in Pins : ReadDriveLow(p) <=> HardDriveLow(p)
       /\ ReadInitCounter <=> HardInitCounter
       /\ ReadNoInterrupts <=> HardNoInterrupts
       /\ ReadPinModeInput <=> HardPinModeInput
       /\ ReadChargeLoop <=> HardChargeLoop
       /\ ReadInterrupts <=> HardInterrupts
       /\ ReadPinModeOutput <=> HardPinModeOutput
       /\ ReadReturn <=> HardReturn]_vars

\* a call has run through all six operations and returned the overflow
\* value, a second one has returned 0 before it
C15_Witness ==
    /\ Returned
    /\ ops = <<"driveLow", "noInterrupts", "input", "read", "interrupts",
               "output">>
    /\ result = 255
    /\ prevResult = 0

\* ---------------------------------------------------------------------------
\* C11, C12, C13
\* ---------------------------------------------------------------------------

\* C11: after a snap ref1 is the filtered value times 2^offset, as an
\* integer: for every offset 0..8 the product fits the 16 bits of ref1 and
\* shifting it back gives the filtered value again
C11_SnapExact ==
    lastUpdate = "snap" =>
        /\ ref1 = value1 * Pow2(calOffset)
        /\ ref1 <= 65535
        /\ ref1 \div Pow2(calOffset) = value1
        /\ Baseline(ref1, calOffset) = value1

\* the largest filtered value under the largest offset has snapped
C11_Witness ==
    /\ lastUpdate = "snap"
    /\ calOffset = MaxOffset
    /\ value1 = 255
    /\ ref1 = 65280

\* C12: with an offset 0..8 a cool down raises ref1 by exactly 1, and the
\* baseline after it is not below the baseline before it: ref1 >> offset
\* stays within 8 bits, the cast to uint8_t never wraps
C12_CoolDown ==
    lastUpdate = "cool" =>
        /\ value1 > Baseline(prevRef, calOffset)
        /\ ref1 = prevRef + 1
        /\ ref1 \div Pow2(calOffset) <= 255
        /\ Baseline(ref1, calOffset) >= Baseline(prevRef, calOffset)

\* a cool down that has raised the baseline, and one that has not
C12_Witness ==
    /\ lastUpdate = "cool"
    /\ calOffset > 0
    /\ Baseline(ref1, calOffset) = Baseline(prevRef, calOffset) + 1

C12_WitnessFlat ==
    /\ lastUpdate = "cool"
    /\ Baseline(ref1, calOffset) = Baseline(prevRef, calOffset)

\* C13: with an offset 0..8 an update leaves ref1 at the old value plus 1
\* (cool down) or at a value not above the old one (snap)
C13_UpOneOrDown ==
    /\ lastUpdate = "cool" => ref1 = prevRef + 1
    /\ lastUpdate = "snap" => ref1 <= prevRef
    /\ pcC = "sample" /\ prevRef # ref1 => lastUpdate \in {"cool", "snap"}

\* a snap has taken ref1 down from a value reached by cooling down
C13_Witness ==
    /\ lastUpdate = "snap"
    /\ ref1 < prevRef
    /\ prevRef < 65535
    /\ prevRef # Baseline(prevRef, calOffset) * Pow2(calOffset)

\* ---------------------------------------------------------------------------
\* C14
\* ---------------------------------------------------------------------------

\* C14: in a pass of loop() the port bits of all sensors are low from
\* sensorLEDsOff() until both sensors have been sampled: an LED lit by the
\* pass before is off before the first sample and none is lit in between
C14_LEDsOffWhileSampling ==
    pcL \in {"sample1", "sample2", "decide"} =>
        \A p \in Pins : latch[p] = "LOW"

\* sensor 1 has been sampled in the pass after one that found sensor 2
\* touched (ref2 cooled down from 160) and lit its LED
C14_Witness ==
    /\ pcL = "sample2"
    /\ ref2 = 161
    /\ \A p \in Pins : latch[p] = "LOW"

\* ---------------------------------------------------------------------------
\* C20
\* ---------------------------------------------------------------------------

\* C20: ref1 and ref2 change in the last statement of a pass of loop() only,
\* so the touch decision is made from their values at the start of the
\* pass; every pass that decides goes on to that statement, and it updates
\* each reference from the filtered value whatever the decision was
C20_DecideThenUpdate ==
    [][/\ (ref1' # ref1 \/ ref2' # ref2) => pcL = "calibrate"
       /\ pcL = "decide" =>
             /\ pcL' = "drive"
             /\ touched1' = (value1 > Baseline(ref1, offset) + sensorThreshold)
             /\ touched2' = (value2 > Baseline(ref2, offset) + sensorThreshold)
       /\ pcL = "drive" =>
             /\ pcL' = "calibrate"
             /\ UNCHANGED <<value1, value2, touched1, touched2>>
       /\ pcL = "calibrate" =>
             /\ pcL' = "ledsOff"
             /\ ref1' = IF value1 <= Baseline(ref1, offset)
                           THEN value1 * Pow2(offset) ELSE ref1 + 1
             /\ ref2' = IF value2 <= Baseline(ref2, offset)
                           THEN value2 * Pow2(offset) ELSE ref2 + 1]_vars

\* sensor 2 was found touched in two passes in a row and its reference has
\* cooled down in both
C20_Witness ==
    /\ pcL = "ledsOff"
    /\ ref2 = 162
    /\ cycle >= 3

\* ---------------------------------------------------------------------------
\* C17, C18
\* ---------------------------------------------------------------------------

\* the return statement digitalTouchMedian left by, and the value of the
\* variable that statement returns
ReturnLine == Median3Return(taken[2], taken[3], taken[4])
ReturnedVariable ==
    IF ReturnLine \in {816, 824} THEN taken[3]
    ELSE IF ReturnLine \in {819, 827} THEN taken[4]
    ELSE taken[2]

\* two or more of value0, value1, value2 are equal
Tie ==
    \/ taken[2] = taken[3]
    \/ taken[3] = taken[4]
    \/ taken[2] = taken[4]

\* C17, as claimed: with two or more equal values the tree is left by the
\* final return and the result is the value of value0
C17_TieFallsThrough ==
    pcA = "medianDone" /\ Tie =>
        /\ ReturnLine = 831
        /\ filtered = taken[2]

\* C17, amended: with two or more equal values the result is the repeated
\* value. The tree is left by the final  return value0  when value0 =
\* value2 or value0 = value1 <= value2; by  return value1  of line 824 when
\* value0 = value1 > value2; and by  return value2  of line 819 or 827 when
\* value1 = value2 differs from value0, where the result is not value0
C17_TieReturnsRepeated ==
    pcA = "medianDone" /\ Tie =>
        /\ filtered = ReturnedVariable
        /\ \E j, k \in 2..4 : j # k /\ taken[j] = taken[k] /\ filtered = taken[j]
        /\ ReturnLine = 831 <=>
              \/ taken[2] = taken[4]
              \/ taken[2] = taken[3] /\ taken[3] <= taken[4]
        /\ ReturnLine = 824 <=> (taken[2] = taken[3] /\ taken[3] > taken[4])
        /\ ReturnLine = 819 <=> (taken[2] < taken[3] /\ taken[3] = taken[4])
        /\ ReturnLine = 827 <=> (taken[2] > taken[3] /\ taken[3] = taken[4])
        /\ ReturnLine \in {819, 827} => filtered # taken[2]

\* value1 = value2 = 255 above value0 = 0: the call has returned 255
C17_Witness ==
    /\ pcA = "medianDone"
    /\ Live = <<0, 255, 255>>
    /\ ReturnLine = 819
    /\ filtered = 255

\* C18: a call of digitalTouchMedian takes exactly four samples; what it
\* returns is one of the second, third and fourth, the one the decision tree
\* picks with them as value0, value1, value2 in this order, and their middle
\* value whatever the first sample was
C18_FourSamples ==
    pcA = "medianDone" =>
        /\ Len(taken) = 4
        /\ filtered = ReturnedVariable
        /\ filtered \in {taken[2], taken[3], taken[4]}
        /\ \E lo, hi \in 2..4 :
              /\ taken[lo] <= filtered
              /\ filtered <= taken[hi]
              /\ taken[lo] + filtered + taken[hi] = SumSeq(Live)

\* the thrown away sample is above all the others and is not returned
C18_Witness ==
    /\ pcA = "medianDone"
    /\ taken = <<255, 1, 0, 1>>
    /\ filtered = 1

\* ---------------------------------------------------------------------------
\* C19
\* ---------------------------------------------------------------------------

\* C19: for samples of 1..255 a pass of the loop of digitalTouchAverage
\* raises the accumulator by the sample it adds, a value of 0..255, and the
\* index by 1 (a wrap would lower them); the accumulator stays at or below
\* 255 times the index, the loop ends with the index equal to samples, and
\* the quotient is at most 255: the cast to uint8_t returns it unchanged
C19_NoOverflow ==
    [][/\ (pcA = "loop" /\ i < samples) =>
             /\ value' - value \in 0..255
             /\ i' = i + 1
             /\ i' <= samples
             /\ value' <= 255 * i'
       /\ pcA = "divide" =>
             /\ i = samples
             /\ value \div samples <= 255
             /\ filtered' = value \div samples]_vars

\* 255 samples of 255 have been added and their average, 255, returned
C19_Witness ==
    /\ pcA = "averageDone"
    /\ samples = 255
    /\ i = 255
    /\ value = 65025
    /\ filtered = 255

\* ---------------------------------------------------------------------------
\* C21, C22
\* ---------------------------------------------------------------------------

\* the references sensor n can reach from 0xFFFF with the filtered values
\* of Samples1 (averages of 10s and 30s) and of Samples2 (medians)
OwnRange1 == {65535} \cup (10 * Pow2(offset) .. 30 * Pow2(offset))
OwnRange2 == {65535} \cup (10 * Pow2(offset) .. 15 * Pow2(offset))

\* what one sensor's calibration makes of its own reference r and its own
\* filtered value v
OwnUpdate(v, r) ==
    IF v * Pow2(offset) <= r - (r % Pow2(offset)) /\ r # 65535
        THEN v * Pow2(offset)
        ELSE IF r = 65535 THEN v * Pow2(offset) ELSE r + 1

\* C21: the sensors do not share state: the decision of a sensor is made
\* from its own filtered value and reference and changes no reference, the
\* calibration gives each reference a value fixed by that reference and
\* the filtered value of the same sensor, and a reference never leaves the
\* values its own sensor's samples can lead to
C21_ChannelIsolation ==
    [][/\ ref1 \in OwnRange1
       /\ ref2 \in OwnRange2
       /\ pcL = "decide" =>
             /\ UNCHANGED <<ref1, ref2, value1, value2>>
             /\ touched1' = (value1 - Baseline(ref1, offset) > sensorThreshold)
             /\ touched2' = (value2 - Baseline(ref2, offset) > sensorThreshold)
       /\ pcL = "calibrate" =>
             /\ ref1' = OwnUpdate(value1, ref1)
             /\ ref2' = OwnUpdate(value2, ref2)]_vars

\* in the same passes the reference of sensor 1 has snapped to 160 while
\* that of sensor 2 has cooled down from 160 by 1
C21_Witness ==
    /\ pcL = "ledsOff"
    /\ ref1 = 160
    /\ ref2 = 161
    /\ cycle >= 3

\* C22: when the LEDs have been driven, the port bit of a sensor is high
\* exactly when this pass found the sensor touched
C22_LEDIffTouched ==
    pcL = "calibrate" =>
        /\ (latch[sensor1] = "HIGH") = touched1
        /\ (latch[sensor2] = "HIGH") = touched2

\* sensor 2 was touched in the pass before (its reference has cooled down
\* to 161) and is not in this one: its LED is off, that of sensor 1 is on
C22_Witness ==
    /\ pcL = "calibrate"
    /\ ref2 = 161
    /\ ~touched2
    /\ latch[sensor2] = "LOW"
    /\ touched1
    /\ latch[sensor1] = "HIGH"

\* ---------------------------------------------------------------------------
\* C23 .. C27
\* ---------------------------------------------------------------------------

\* a pass of loop() has decided and updated ref1
Updated == pcC = "sample" /\ lastUpdate # "none"

\* C23: with an offset 0..8 and a threshold >= 0 a pass never both finds
\* the sensor touched and snaps: a touched pass cools down (ref1 + 1), a
\* pass that snaps (filtered value <= baseline) is not touched
C23_TouchedExcludesSnap ==
    /\ calThreshold >= 0
    /\ Updated /\ touched1 =>
          /\ lastUpdate = "cool"
          /\ ref1 = prevRef + 1
    /\ Updated /\ lastUpdate = "snap" =>
          /\ value1 <= Baseline(prevRef, calOffset)
          /\ ~touched1

\* with threshold 0 a pass at the baseline has snapped untouched, and one
\* just above it has cooled down touched
C23_Witness ==
    /\ Updated
    /\ calThreshold = 0
    /\ lastUpdate = "snap"
    /\ prevRef < 65535
    /\ value1 = Baseline(prevRef, calOffset)
    /\ ~touched1

C23_WitnessTouched ==
    /\ Updated
    /\ touched1
    /\ lastUpdate = "cool"

\* C24: with ref1 = 0xFFFF the baseline is 255 for every offset 0..8, so
\* the first pass snaps for every filtered value 0..255 (ref1 becomes the
\* value << offset) and finds the sensor not touched
C24_FirstPassSnaps ==
    /\ ref1 = 65535 => Baseline(ref1, calOffset) = 255
    /\ Updated /\ prevRef = 65535 =>
          /\ lastUpdate = "snap"
          /\ ref1 = value1 * Pow2(calOffset)
          /\ ~touched1

\* the first pass with the smallest and with the largest filtered value
C24_Witness ==
    /\ Updated
    /\ prevRef = 65535
    /\ value1 = 0
    /\ ref1 = 0
    /\ calOffset = MaxOffset

C24_WitnessTop ==
    /\ Updated
    /\ prevRef = 65535
    /\ value1 = 255
    /\ ref1 = 255
    /\ calOffset = 0

\* C25: ref1++ never wraps: ref1 is 0xFFFF before the first update only,
\* the update met with ref1 = 0xFFFF is a snap, and a cool down starts below
\* 0xFFFF and ends one higher
C25_CoolDownNoWrap ==
    /\ pcC = "update" /\ ref1 = 65535 => value1 <= Baseline(ref1, calOffset)
    /\ Updated /\ prevRef = 65535 /\ value1 > 0 => ref1 > 0
    /\ lastUpdate # "none" => ref1 < 65535
    /\ lastUpdate = "cool" =>
          /\ prevRef < 65535
          /\ ref1 = prevRef + 1
          /\ ref1 # 0

\* the highest reference a cool down reaches: 255 << 8
C25_Witness ==
    /\ lastUpdate = "cool"
    /\ calOffset = MaxOffset
    /\ ref1 = 65280

\* C26: once ref1 has been updated, ref1 >> offset is at most 255: the
\* cast to uint8_t drops no set bit and the baseline is ref1 >> offset
C26_BaselineIsShift ==
    (lastUpdate # "none" \/ ref1 # 65535) =>
        /\ ref1 \div Pow2(calOffset) <= 255
        /\ Baseline(ref1, calOffset) = ref1 \div Pow2(calOffset)

\* the baseline has reached 255 by cooling down
C26_Witness ==
    /\ lastUpdate = "cool"
    /\ calOffset > 0
    /\ ref1 \div Pow2(calOffset) = 255
    /\ Baseline(ref1, calOffset) = 255

\* C27: with an offset 0..8 the baseline after an update is not above the
\* filtered value the pass has evaluated
C27_BaselineAtMostSample ==
    Updated => Baseline(ref1, calOffset) <= value1

\* a cool down has brought the baseline up to the filtered value
C27_Witness ==
    /\ Updated
    /\ lastUpdate = "cool"
    /\ Baseline(ref1, calOffset) = value1
    /\ Baseline(prevRef, calOffset) < value1

\* ---------------------------------------------------------------------------
\* C28
\* ---------------------------------------------------------------------------

\* the number of passes a held touch is reported for
TouchedPasses == (holdSample - calThreshold - holdBase) * Pow2(calOffset)

\* a pass with the held value has decided
HeldDecided == pcC = "update" /\ prevRef # 65535

\* C28: with an offset 0..8, after a snap to baseline b a filtered value
\* held at s, s - b > T, is found touched in the first (s - T - b) *
\* 2^offset passes and in no later one; ref1 rises by 1 a pass up to
\* s << offset, which it reaches in the end and keeps
C28_HeldTouchAbsorbed ==
    /\ [](HeldDecided => (touched1 <=> heldCycles < TouchedPasses))
    /\ [](touchedCycles <= TouchedPasses)
    /\ [](HeldDecided /\ heldCycles >= TouchedPasses =>
             touchedCycles = TouchedPasses)
    /\ [](HeldDecided /\ heldCycles <= HoldEnd =>
             ref1 = holdBase * Pow2(calOffset) + heldCycles)
    /\ [](heldCycles > HoldEnd => ref1 = holdSample * Pow2(calOffset))
    /\ <>[](/\ ref1 = holdSample * Pow2(calOffset)
            /\ ~touched1
            /\ touchedCycles = TouchedPasses)

\* the sketch's build (offset 4, threshold 4), baseline 10, held value 30:
\* 256 touched passes are over and ref1 has reached 480
C28_Witness ==
    /\ calOffset = offset
    /\ calThreshold = sensorThreshold
    /\ holdBase = 10
    /\ holdSample = 30
    /\ touchedCycles = 256
    /\ heldCycles > HoldEnd
    /\ ref1 = 480
    /\ ~touched1

====
